---- MODULE Spec2Model ----
(***************************************************************************)
(* dev_health_monitor.py: the session segmenter (analyze_sessions) and the *)
(* reminder scheduler (health_check_loop) with its cancellation protocol.  *)
(*                                                                         *)
(* Instants are whole seconds of local time counted from 00:00:00 of a     *)
(* Monday that opens ISO week 1 of a 52-week ISO year (2021-01-04 is one;  *)
(* the ISO years 2021..2025 all have 52 weeks).  A timedelta is a          *)
(* difference of two instants, in seconds.                                 *)
(***************************************************************************)
EXTENDS Integers, Sequences, FiniteSets, TLC

\* ---------------------------------------------------------------- settings

LONG_SESSION_HOURS == 3
LATE_NIGHT_START == 22
LATE_NIGHT_END == 6
MIN_BREAK_MINUTES == 5

hydration_interval == 60
activity_interval == 90
mood_check_interval == 180
ergonomics_interval == 120

\* range(600): the one-second polls of the inter-tick wait
WAIT_POLLS == 600
\* time.sleep(2) between two notifications, time.sleep(1) per poll
NOTIFY_DELAY == 2
POLL_DELAY == 1

\* Python's None for the nullable locals (instants and day/week ids are >= 0)
None == -1

\* ------------------------------------------------------------------ bounds

\* ticks of the loop a behaviour may start
MaxTicks == 3
\* polls of the wait modelled one by one at each end of the 600
WaitFine == 2
\* longest commit list handed to analyze_sessions on its own
MaxLen == 4
\* longest run of commits left out of a regular morning of commits
MaxHole == 3

\* ---------------------------------------------------------------- calendar

SecondsPerDay == 86400
WeeksPerYear == 52

At(d, h, m, s) == d * SecondsPerDay + h * 3600 + m * 60 + s

\* datetime.date(): the calendar day of an instant
Date(t) == t \div SecondsPerDay
\* datetime.hour
Hour(t) == (t % SecondsPerDay) \div 3600
\* date.isocalendar(): (ISO year, ISO week number)
IsoYear(t) == Date(t) \div (7 * WeeksPerYear)
IsoWeekNumber(t) == ((Date(t) \div 7) % WeeksPerYear) + 1

\* ------------------------------------------------------- analyze_sessions

\* (mutant) the sort left out: the list is segmented as fetched
sortedNot(s) == s

\* sorted(commit_times): ascending
sorted(s) == SortSeq(s, LAMBDA a, b : a < b)

\* (mutant) the comparison taken as "at least" MIN_BREAK_MINUTES
IsBreakInclusive(prev, curr) == (curr - prev) >= MIN_BREAK_MINUTES * 60

\* diff > MIN_BREAK_MINUTES, diff = (curr - prev).total_seconds() / 60
IsBreak(prev, curr) == (curr - prev) > MIN_BREAK_MINUTES * 60

\* The for loop over zip(commit_times, commit_times[1:]) with the session
\* opened at index i: the else branch (line 56) appends every next instant
\* up to the first pair that takes the if branch (line 52), or to the end.
SessionEnd(ct, i) ==
    LET closing == { e \in i..Len(ct) : e = Len(ct) \/ IsBreak(ct[e], ct[e + 1]) }
    IN  CHOOSE e \in closing : \A f \in closing : e <= f

\* lines 53-54 close that session and open the next at the pair's curr;
\* lines 57-58 close the last one
RECURSIVE SessionsFrom(_, _)
SessionsFrom(ct, i) ==
    IF i > Len(ct) THEN << >>
    ELSE LET e == SessionEnd(ct, i)
         IN  << SubSeq(ct, i, e) >> \o SessionsFrom(ct, e + 1)

\* analyze_sessions; the None it returns for an empty list is << >> here
\* (both are false in `if sessions:`)
analyze_sessions(commit_times) ==
    IF commit_times = << >> THEN << >>
    ELSE LET ct == sorted(commit_times)
         IN  SessionsFrom(ct, 1)

\* ------------------------------------------------------------- metrics

\* (s[-1] - s[0]).total_seconds()
Span(s) == s[Len(s)] - s[1]
\* int((s[-1] - s[0]).total_seconds() / 60)
DurationMinutes(s) == Span(s) \div 60

\* (mutant) the hours of the span floored before the comparison
IsLongSessionWholeHours(s) == Span(s) \div 3600 > LONG_SESSION_HOURS
\* (s[-1] - s[0]).total_seconds() / 3600 > LONG_SESSION_HOURS
IsLongSession(s) == Span(s) > LONG_SESSION_HOURS * 3600
\* (mutant) the gap comparison turned round
IsNoBreakSessionGapsOver(s) ==
    /\ \A i \in 1..(Len(s) - 1) : (s[i + 1] - s[i]) > 60 * 60
    /\ Span(s) > 2 * 3600
\* all gaps under 60 minutes and a span over 2 hours
IsNoBreakSession(s) ==
    /\ \A i \in 1..(Len(s) - 1) : (s[i + 1] - s[i]) < 60 * 60
    /\ Span(s) > 2 * 3600
\* (mutant) the hour LATE_NIGHT_START itself left out
IsLateNightAfterStart(c) == LATE_NIGHT_START < Hour(c) \/ Hour(c) < LATE_NIGHT_END
\* LATE_NIGHT_START <= c.hour or c.hour < LATE_NIGHT_END
IsLateNight(c) == LATE_NIGHT_START <= Hour(c) \/ Hour(c) < LATE_NIGHT_END

long_sessions(sessions) == SelectSeq(sessions, IsLongSession)
no_break_sessions(sessions) == SelectSeq(sessions, IsNoBreakSession)
late_night_commits(sessions) ==
    { c \in UNION { { s[i] : i \in 1..Len(s) } : s \in { sessions[k] : k \in 1..Len(sessions) } } :
        IsLateNight(c) }

\* the session counts for the day accumulator: s[0].date() == today
StartedToday(s, today) == Date(s[1]) = today
\* the session counts for the week accumulator: s[0].isocalendar()[1] == week
StartedThisWeek(s, week) == IsoWeekNumber(s[1]) = week

\* what the for loop over the sessions adds to daily_coding_minutes
RECURSIVE DailyDelta(_, _)
DailyDelta(sessions, today) ==
    IF sessions = << >> THEN 0
    ELSE (IF StartedToday(Head(sessions), today) THEN DurationMinutes(Head(sessions)) ELSE 0)
         + DailyDelta(Tail(sessions), today)

\* what the for loop over the sessions adds to weekly_coding_minutes
RECURSIVE WeeklyDelta(_, _)
WeeklyDelta(sessions, week) ==
    IF sessions = << >> THEN 0
    ELSE (IF StartedThisWeek(Head(sessions), week) THEN DurationMinutes(Head(sessions)) ELSE 0)
         + WeeklyDelta(Tail(sessions), week)

\* (mutant) the elapsed time left in seconds, not divided by 60
ReminderDueInSeconds(now_, last, interval) ==
    IF last # None THEN (now_ - last) > interval
    ELSE interval + 1 > interval

\* minutes_since_last_x > x_interval, with interval + 1 minutes when never fired
ReminderDue(now_, last, interval) ==
    IF last # None THEN (now_ - last) > interval * 60
    ELSE interval + 1 > interval

\* -------------------------------------------------------- notifications

STARTED == << "Developer Health Monitor", "Monitoring started! You'll receive health notifications every 10 minutes." >>
NO_DATA == << "Developer Health Monitor", "No commit data found." >>
\* the message carries len(long_sessions), left out of the text here
LONG_ALERT == << "Developer Health Alert", "You had {n} long coding session(s). Remember to take breaks!" >>
BREAK_ALERT == << "Break Reminder", "You've been coding for over 2 hours without a significant break. Please take a break!" >>
NIGHT_ALERT == << "Night Owl Alert", "You committed code late at night. Prioritize rest for better productivity." >>
DAILY_ALERT == << "Work Limit Warning", "You've coded more than 8 hours today. Consider taking a longer break!" >>
WEEKLY_ALERT == << "Weekly Limit Warning", "You've coded more than 40 hours this week. Watch for burnout!" >>
HYDRATION == << "Hydration Reminder", "Time to drink some water!" >>
ACTIVITY == << "Activity Reminder", "Stand up and stretch for a few minutes!" >>
ERGONOMICS == << "Ergonomics Tip", "Check your posture and desk setup. 20-20-20 rule: every 20 minutes, look at something 20 feet away for 20 seconds." >>
MOOD == << "Mood Check-In", "How are you feeling? Take a moment to reflect on your mood and stress level." >>
\* (the message opens with a check-mark sign, left out here)
GREAT_JOB == << "Great Job!", "Your coding habits look healthy! Keep it up!" >>

If(c, n) == IF c THEN << n >> ELSE << >>

\* daily_coding_minutes > 8*60, weekly_coding_minutes > 40*60
DailyOver(daily) == daily > 8 * 60
WeeklyOver(weekly) == weekly > 40 * 60

\* the condition of the positive reinforcement: no alert of this tick
NoAlert(sessions, daily, weekly) ==
    ~ ( \/ long_sessions(sessions) # << >>
        \/ no_break_sessions(sessions) # << >>
        \/ late_night_commits(sessions) # {}
        \/ DailyOver(daily)
        \/ WeeklyOver(weekly) )

\* (mutant) the periodic reminders appended before the alerts
CollectRemindersFirst(r) ==
    If(r.hydration, HYDRATION) \o If(r.activity, ACTIVITY)
    \o If(r.ergonomics, ERGONOMICS) \o If(r.mood, MOOD)
    \o If(r.long, LONG_ALERT) \o If(r.nobreak, BREAK_ALERT) \o If(r.night, NIGHT_ALERT)
    \o If(r.daily, DAILY_ALERT) \o If(r.weekly, WEEKLY_ALERT)
    \o If(r.positive, GREAT_JOB)

\* the appends to `notifications`, in the order of the if statements;
\* r holds the condition of each
Collect(r) ==
    If(r.long, LONG_ALERT) \o If(r.nobreak, BREAK_ALERT) \o If(r.night, NIGHT_ALERT)
    \o If(r.daily, DAILY_ALERT) \o If(r.weekly, WEEKLY_ALERT)
    \o If(r.hydration, HYDRATION) \o If(r.activity, ACTIVITY)
    \o If(r.ergonomics, ERGONOMICS) \o If(r.mood, MOOD)
    \o If(r.positive, GREAT_JOB)

\* ----------------------------------------------------------------- inputs

\* datetime.datetime.now() at the start of a tick: four instants of a
\* Tuesday (15:00 is exactly 60 minutes after 14:00 and 50 after 14:10), the
\* day after, the week after, and the same week one ISO year later
ClockValues ==
    { At(1, 13, 50, 0), At(1, 14, 0, 0), At(1, 14, 10, 0), At(1, 15, 0, 0),
      At(2, 0, 5, 0), At(8, 9, 0, 0), At(365, 9, 0, 0) }

\* what get_git_commit_times() may return (git log lists the newest first):
\* nothing (no commit, or the except branch), a quiet day, night work, and
\* two long days: Monday 08:00 to 23:01:59, Tuesday 08:00 to 13:00:59
HealthyLog == << At(1, 13, 0, 0), At(1, 9, 2, 30), At(1, 9, 2, 30), At(1, 9, 0, 0) >>
NightLog == << At(1, 5, 59, 59), At(1, 5, 55, 0) >>
BusyLog ==
    << At(1, 13, 0, 59) >> \o [ i \in 1..61 |-> At(1, 13, 0, 0) - (i - 1) * 300 ]
    \o << At(0, 23, 1, 59), At(0, 23, 1, 0) >>
    \o [ i \in 1..181 |-> At(0, 23, 0, 0) - (i - 1) * 300 ]
CommitLogs == { << >>, HealthyLog, NightLog, BusyLog }

\* ------------------------------------------------------------------ state

VARIABLES
    \* where health_check_loop stands: "tick" (line 119), "emit_first" (123),
    \* "emit" (186), "sleep2" (187), "emit_nodata" (191), "wait" (194),
    \* "sleep1" (196), "returned" (195), "raised" (an exception left the loop);
    \* in analyze_and_display: "analyze" (line 213), "analyzed" (214)
    pc,
    \* the stop_event argument: "none" (main() passes none), "clear", "set"
    stop_event,
    \* the locals of health_check_loop
    now, commit_times, sessions, notifications,
    last_hydration_reminder, last_activity_reminder, last_ergonomics_tip, last_mood_check,
    daily_coding_minutes, weekly_coding_minutes, last_day, last_week,
    positive_reinforcement_given, first_run,
    \* the index of the notification the for loop of line 185 stands at, and
    \* the poll of range(600) the wait stands at
    emit_i, wait_i,
    \* observers: ticks started; seconds slept since `now` was read; every
    \* call of show_popup_func so far; where the loop stood when the stop
    \* signal was set; seconds of sleep that ended since the signal
    ticks, slept, sink, stop_seen, since_stop

locals == << now, commit_times, sessions, notifications >>
reminders == << last_hydration_reminder, last_activity_reminder, last_ergonomics_tip, last_mood_check >>
rolling == << daily_coding_minutes, weekly_coding_minutes, last_day, last_week,
              positive_reinforcement_given >>
vars == << pc, stop_event, locals, reminders, rolling, first_run, emit_i, wait_i,
           ticks, slept, sink, stop_seen, since_stop >>

NotStopped == [ pc |-> "", tick |-> 0, poll |-> 0 ]

\* lines 102-116; the locals bound later in the loop start unbound
InitLoop ==
    /\ now = None /\ sessions = << >> /\ notifications = << >>
    /\ last_hydration_reminder = None /\ last_activity_reminder = None
    /\ last_ergonomics_tip = None /\ last_mood_check = None
    /\ daily_coding_minutes = 0 /\ weekly_coding_minutes = 0
    /\ last_day = None /\ last_week = None
    /\ positive_reinforcement_given = FALSE
    /\ first_run = TRUE
    /\ emit_i = 0 /\ wait_i = 0
    /\ ticks = 0 /\ slept = 0 /\ sink = << >> /\ stop_seen = NotStopped /\ since_stop = 0

\* main() runs the loop with no stop event, run_gui() with a fresh Event
Init ==
    /\ InitLoop
    /\ pc = "tick"
    /\ commit_times = << >>
    /\ stop_event \in { "none", "clear" }

\* ------------------------------------------------------- the rule tick

\* (mutant) the accumulator never restarted
RolledDailyNever(daily, day, today) == daily
\* (mutant) the flag cleared on every rule tick
RolledPositiveAlways(given, day, today) == FALSE

\* if last_day != today: daily_coding_minutes = 0 (lines 133-134)
RolledDaily(daily, day, today) == IF day # today THEN 0 ELSE daily
\* if last_day != today: positive_reinforcement_given = False (lines 133, 136)
RolledPositive(given, day, today) == IF day # today THEN FALSE ELSE given
\* (mutant) the week accumulator restarted on every rule tick
RolledWeeklyAlways(weekly, wk, week) == 0

\* if last_week != week: weekly_coding_minutes = 0 (lines 137-138)
RolledWeekly(weekly, wk, week) == IF wk # week THEN 0 ELSE weekly

\* the two nested ifs of lines 180-181
PositiveDue(ss, daily, weekly, given) == NoAlert(ss, daily, weekly) /\ ~given

\* the conditions of the ten if statements of lines 158-181, on the
\* accumulators as they stand after lines 133-145
Rules(t, ss, daily, weekly, given, hyd, act, erg, mood) ==
    [ long       |-> long_sessions(ss) # << >>,
      nobreak    |-> no_break_sessions(ss) # << >>,
      night      |-> late_night_commits(ss) # {},
      daily      |-> DailyOver(daily),
      weekly     |-> WeeklyOver(weekly),
      hydration  |-> ReminderDue(t, hyd, hydration_interval),
      activity   |-> ReminderDue(t, act, activity_interval),
      ergonomics |-> ReminderDue(t, erg, ergonomics_interval),
      mood       |-> ReminderDue(t, mood, mood_check_interval),
      positive   |-> PositiveDue(ss, daily, weekly, given) ]

\* last_x = now where the reminder fires
Fired(fires, t, last) == IF fires THEN t ELSE last

\* ------------------------------------------------------------ the loop

\* time.sleep never returns early: the next now is at least the seconds
\* slept after the last one
ClockAfter(t, secs) == { c \in ClockValues : t = None \/ c >= t + secs }

\* lines 119-121: read the clock, fetch the commits, segment them; logs is
\* what get_git_commit_times() may return at this tick
Fetch(logs) ==
    /\ pc = "tick"
    /\ ticks < MaxTicks
    /\ ticks' = ticks + 1
    /\ slept' = 0
    /\ now' \in ClockAfter(now, slept)
    /\ commit_times' \in logs
    /\ sessions' = analyze_sessions(commit_times')

\* line 122, first_run true: on to the "monitoring started" popup
TickFirst(logs) ==
    /\ first_run
    /\ Fetch(logs)
    /\ pc' = "emit_first"
    /\ UNCHANGED << stop_event, notifications, reminders, rolling, first_run,
                    emit_i, wait_i, sink, stop_seen, since_stop >>

\* (mutant) the day rolled before the sessions are looked at
TickNoDataRolls(logs) ==
    /\ ~first_run
    /\ Fetch(logs)
    /\ sessions' = << >>
    /\ pc' = "emit_nodata"
    /\ last_day' = Date(now')
    /\ daily_coding_minutes' = RolledDaily(daily_coding_minutes, last_day, Date(now'))
    /\ positive_reinforcement_given' =
           RolledPositive(positive_reinforcement_given, last_day, Date(now'))
    /\ UNCHANGED << stop_event, notifications, reminders, weekly_coding_minutes, last_week,
                    first_run, emit_i, wait_i, sink, stop_seen, since_stop >>

\* lines 125-126, 188-190: no sessions, on to the "no data" popup
TickNoData(logs) ==
    /\ ~first_run
    /\ Fetch(logs)
    /\ sessions' = << >>
    /\ pc' = "emit_nodata"
    /\ UNCHANGED << stop_event, notifications, reminders, rolling, first_run,
                    emit_i, wait_i, sink, stop_seen, since_stop >>

\* lines 125-183: roll the day and the week, accumulate, evaluate the rules
TickRules(logs) ==
    /\ ~first_run
    /\ Fetch(logs)
    /\ sessions' # << >>
    /\ LET today == Date(now')
           week == IsoWeekNumber(now')
           daily == RolledDaily(daily_coding_minutes, last_day, today)
                    + DailyDelta(sessions', today)
           weekly == RolledWeekly(weekly_coding_minutes, last_week, week)
                     + WeeklyDelta(sessions', week)
           given == RolledPositive(positive_reinforcement_given, last_day, today)
           r == Rules(now', sessions', daily, weekly, given,
                      last_hydration_reminder, last_activity_reminder,
                      last_ergonomics_tip, last_mood_check)
       IN  /\ last_day' = today
           /\ last_week' = week
           /\ daily_coding_minutes' = daily
           /\ weekly_coding_minutes' = weekly
           /\ notifications' = Collect(r)
           /\ last_hydration_reminder' = Fired(r.hydration, now', last_hydration_reminder)
           /\ last_activity_reminder' = Fired(r.activity, now', last_activity_reminder)
           /\ last_ergonomics_tip' = Fired(r.ergonomics, now', last_ergonomics_tip)
           /\ last_mood_check' = Fired(r.mood, now', last_mood_check)
           /\ positive_reinforcement_given' = (given \/ r.positive)
    /\ emit_i' = 1
    /\ wait_i' = 0
    /\ pc' = IF notifications' = << >> THEN "wait" ELSE "emit"
    /\ UNCHANGED << stop_event, first_run, sink, stop_seen, since_stop >>

\* show_popup_func(title, msg): the sink gets the notification, and either
\* returns or raises; nothing in the loop catches what it raises
CallSink(n, next) ==
    /\ sink' = Append(sink, [ tick |-> ticks, at |-> now, note |-> n,
                              stopped |-> (stop_event = "set"), late |-> since_stop ])
    /\ \/ pc' = next
       \/ pc' = "raised"

\* (mutant) first_run left as it is
EmitFirstKeepsFlag ==
    /\ pc = "emit_first"
    /\ CallSink(STARTED, "wait")
    /\ wait_i' = 0
    /\ UNCHANGED << stop_event, locals, reminders, rolling, first_run, emit_i, ticks, slept,
                    stop_seen, since_stop >>

\* lines 123-124
EmitFirst ==
    /\ pc = "emit_first"
    /\ CallSink(STARTED, "wait")
    /\ first_run' = (pc' = "raised")
    /\ wait_i' = 0
    /\ UNCHANGED << stop_event, locals, reminders, rolling, emit_i, ticks, slept, stop_seen, since_stop >>

\* line 191
EmitNoData ==
    /\ pc = "emit_nodata"
    /\ CallSink(NO_DATA, "wait")
    /\ wait_i' = 0
    /\ UNCHANGED << stop_event, locals, reminders, rolling, first_run, emit_i,
                    ticks, slept, stop_seen, since_stop >>

\* line 186, for the notification the for loop stands at
EmitRule ==
    /\ pc = "emit"
    /\ CallSink(notifications[emit_i], "sleep2")
    /\ UNCHANGED << stop_event, locals, reminders, rolling, first_run, emit_i, wait_i,
                    ticks, slept, stop_seen, since_stop >>

\* seconds of sleep that count as after the stop signal
Late(secs) == IF stop_event = "set" THEN since_stop + secs ELSE since_stop

\* line 187 returns; the for loop goes on or ends
SleepNotify ==
    /\ pc = "sleep2"
    /\ slept' = slept + NOTIFY_DELAY
    /\ since_stop' = Late(NOTIFY_DELAY)
    /\ emit_i' = emit_i + 1
    /\ pc' = IF emit_i' > Len(notifications) THEN "wait" ELSE "emit"
    /\ UNCHANGED << stop_event, locals, reminders, rolling, first_run, wait_i, ticks, sink, stop_seen >>

\* if stop_event and stop_event.is_set() (line 194)
StopRequested == stop_event = "set"

\* lines 194-195: the poll returns from the loop, or goes to sleep
WaitPoll ==
    /\ pc = "wait"
    /\ pc' = IF StopRequested THEN "returned" ELSE "sleep1"
    /\ UNCHANGED << stop_event, locals, reminders, rolling, first_run, emit_i, wait_i,
                    ticks, slept, sink, stop_seen, since_stop >>

\* The polls WaitFine .. WAIT_POLLS - WaitFine - 1 find what poll
\* WaitFine - 1 found while the event stays clear: they are taken with it.
NextPoll(i) ==
    IF i + 1 = WaitFine /\ ~StopRequested /\ 2 * WaitFine < WAIT_POLLS
    THEN WAIT_POLLS - WaitFine
    ELSE i + 1

\* line 196 returns; after poll WAIT_POLLS - 1 the for loop of line 193 ends
\* and the while loop starts the next tick
WaitSleep ==
    /\ pc = "sleep1"
    /\ wait_i' = NextPoll(wait_i)
    /\ slept' = slept + POLL_DELAY * (wait_i' - wait_i)
    /\ since_stop' = Late(POLL_DELAY)
    /\ pc' = IF wait_i' >= WAIT_POLLS THEN "tick" ELSE "wait"
    /\ UNCHANGED << stop_event, locals, reminders, rolling, first_run, emit_i, ticks, sink, stop_seen >>

\* on_close (lines 227-229), on the foreground thread, at any moment of the
\* loop: the handler sets the event and destroys the window
SetStop ==
    /\ stop_event = "clear"
    /\ pc \notin { "returned", "raised" }
    /\ stop_event' = "set"
    /\ stop_seen' = [ pc |-> pc, tick |-> ticks, poll |-> wait_i ]
    /\ UNCHANGED << pc, locals, reminders, rolling, first_run, emit_i, wait_i,
                    ticks, slept, sink, since_stop >>

\* the repository may hold any of CommitLogs at each fetch
Next ==
    \/ TickFirst(CommitLogs)
    \/ TickNoData(CommitLogs)
    \/ TickRules(CommitLogs)
    \/ EmitFirst
    \/ EmitNoData
    \/ EmitRule
    \/ SleepNotify
    \/ WaitPoll
    \/ WaitSleep
    \/ SetStop

Spec == Init /\ [][Next]_vars

\* ------------------------------------------ analyze_sessions on its own

\* instants 5 minutes, 5 minutes and a second, and an hour apart
SegInstants ==
    { At(1, 9, 0, 0), At(1, 9, 5, 0), At(1, 9, 5, 1), At(1, 9, 10, 1), At(1, 10, 10, 1) }

\* every commit list of at most MaxLen of them, in any order, repeats allowed
SegInputs == UNION { [ 1..n -> SegInstants ] : n \in 0..MaxLen }

\* run_gui.analyze_and_display with the fetched list in hand (line 212)
InitSeg ==
    /\ InitLoop
    /\ stop_event = "clear"
    /\ pc = "analyze"
    /\ commit_times \in SegInputs

\* sessions = analyze_sessions(commit_times) (line 213)
Analyze ==
    /\ pc = "analyze"
    /\ sessions' = analyze_sessions(commit_times)
    /\ pc' = "analyzed"
    /\ UNCHANGED << stop_event, now, commit_times, notifications, reminders, rolling,
                    first_run, emit_i, wait_i, ticks, slept, sink, stop_seen, since_stop >>

NextSeg == Analyze

SpecSeg == InitSeg /\ [][NextSeg]_vars

\* ------------------------------------- the loop on an unchanging repository

\* commits every step seconds from `from` to `to`, newest first
Grid(from, to, step) == [ k \in 1..((to - from) \div step + 1) |-> to - (k - 1) * step ]
\* the log without the n commits that follow its first a
Without(log, a, n) == SubSeq(log, 1, a) \o SubSeq(log, a + n + 1, Len(log))

\* mornings of commits from 08:00 to 11:30: every 2.5 or every 5 minutes with
\* a run of up to MaxHole commits left out, every 7 minutes, every 59 minutes
\* or less; and a shorter one, from 08:00 to 10:30
MorningLogs ==
    { Without(Grid(At(1, 8, 0, 0), At(1, 11, 30, 0), step), 10, n) :
          step \in { 150, 300 }, n \in 0..MaxHole }
    \cup { Grid(At(1, 8, 0, 0), At(1, 11, 30, 0), 420),
           << At(1, 11, 30, 0), At(1, 10, 57, 0), At(1, 9, 58, 0), At(1, 8, 59, 0), At(1, 8, 0, 0) >>,
           Grid(At(1, 8, 0, 0), At(1, 10, 30, 0), 300) }

\* single commits around the two ends of the night, and one log that goes
\* from the evening to the morning after
HourLogs ==
    { << At(0, h, 0, 0) >> : h \in { 0, 5, 6, 7, 21, 22, 23 } }
    \cup { << At(0, 23, 30, 0) >>, << At(0, 5, 59, 0) >>, << At(0, 21, 59, 0) >> }
    \cup { << At(1, 7, 0, 0), At(0, 21, 59, 59) >>, << At(1, 7, 0, 0), At(0, 23, 30, 0) >> }

RepoLogs == { << >>, BusyLog } \cup MorningLogs \cup HourLogs

\* main(): no stop event; commit_times stands for the log of the repository
\* before the first fetch binds it
InitRepo ==
    /\ InitLoop
    /\ pc = "tick"
    /\ stop_event = "none"
    /\ commit_times \in RepoLogs

\* every fetch returns the same log
NextRepo ==
    \/ TickFirst({ commit_times })
    \/ TickNoData({ commit_times })
    \/ TickRules({ commit_times })
    \/ EmitFirst
    \/ EmitNoData
    \/ EmitRule
    \/ SleepNotify
    \/ WaitPoll
    \/ WaitSleep

SpecRepo == InitRepo /\ [][NextRepo]_vars

\* ------------------------------------------------------------- observers

\* the notifications handed to the sink during tick k, in the order of the calls
NotesOf(log, k) ==
    LET calls == SelectSeq(log, LAMBDA r : r.tick = k)
    IN  [ i \in 1..Len(calls) |-> calls[i].note ]

Range(seq) == { seq[i] : i \in 1..Len(seq) }

\* positions of the loop inside a tick, and inside the inter-tick wait
InTick == { "emit_first", "emit_nodata", "emit", "sleep2" }
InWait == { "wait", "sleep1" }
Ended == { "returned", "raised" }

\* ----------------------------------------------------------------- claims

\* C1: once the stop signal is set at any point of a tick (the emission loop
\* included), the loop sleeps no more than one second before it ends, and no
\* notification is handed to the sink after a sleep that ended since the
\* signal.
C1_StopEndsTick ==
    stop_seen.pc \in InTick =>
        /\ since_stop <= POLL_DELAY
        /\ \A k \in 1..Len(sink) : sink[k].late = 0

\* C2: once the stop signal is set during the inter-tick wait (any poll, the
\* last one included), the loop sleeps no more than one second, the sink is
\* not called again and no new tick starts.
C2_StopEndsWait ==
    stop_seen.pc \in InWait =>
        /\ since_stop <= POLL_DELAY
        /\ ticks = stop_seen.tick
        /\ \A k \in 1..Len(sink) : ~sink[k].stopped

\* C9: the loop ends only through the stop signal: no exception of the sink
\* leaves the loop, and the loop never returns while the signal is unset.
C9_OnlyStopEndsLoop ==
    /\ pc # "raised"
    /\ pc = "returned" => stop_event = "set"

\* a step that starts a tick (lines 119-121), and one that takes the rule
\* branch (lines 126-183)
TickStep == pc = "tick" /\ pc' # "tick"
RuleStep == pc = "tick" /\ pc' \in { "emit", "wait" }
\* the loop stands after the emissions of the tick it is in
TickEmitted == ticks >= 1 /\ pc \in InWait \cup { "tick", "returned" }

Alerts == { LONG_ALERT, BREAK_ALERT, NIGHT_ALERT, DAILY_ALERT, WEEKLY_ALERT }

\* what a tick with no session does to the sink and to the rolling state
NoDataEffect ==
    /\ UNCHANGED << rolling, reminders, first_run >>
    /\ NotesOf(sink', ticks') \in { << >>, << NO_DATA >> }
    /\ TickEmitted' => NotesOf(sink', ticks') = << NO_DATA >>

\* C3 as stated: every tick whose fetch yields no sessions, the first tick
\* included, hands exactly the "no data" notification to the sink and
\* changes no rolling state.
C3_NoDataTickAlways ==
    [][ (ticks' >= 1 /\ sessions' = << >>) => NoDataEffect ]_vars

\* C3 amended: every tick after the first whose fetch yields no sessions hands
\* exactly the "no data" notification to the sink and changes no rolling
\* state (first_run, accumulators, day and week, reminder times,
\* positive_reinforcement_given).
C3_NoDataTick ==
    [][ (ticks' >= 2 /\ sessions' = << >>) => NoDataEffect ]_vars

\* a no-data tick past the first, emitted, with minutes accumulated before it
C3_Witness ==
    /\ ticks >= 2 /\ sessions = << >> /\ pc = "wait"
    /\ NotesOf(sink, ticks) = << NO_DATA >>
    /\ daily_coding_minutes > 0 /\ last_hydration_reminder # None

\* C4: "monitoring started" goes to the sink exactly once, on the first tick,
\* alone; up to the end of that tick the rolling state keeps its initial
\* values; the first-iteration flag is cleared by that tick and never set
\* again.
C4_StartedOnce ==
    /\ \A k \in 1..Len(sink) : sink[k].note = STARTED <=> sink[k].tick = 1
    /\ NotesOf(sink, 1) \in { << >>, << STARTED >> }
    /\ (ticks >= 1 /\ pc # "emit_first") => NotesOf(sink, 1) = << STARTED >>
    /\ ticks <= 1 =>
         /\ daily_coding_minutes = 0 /\ weekly_coding_minutes = 0
         /\ last_day = None /\ last_week = None
         /\ reminders = << None, None, None, None >>
         /\ ~positive_reinforcement_given
    /\ first_run => ticks <= 1
    /\ (ticks >= 1 /\ pc \notin { "emit_first", "raised" }) => ~first_run

\* a later tick has run and the first tick's popup is still the only one
C4_Witness ==
    /\ ticks = 3 /\ pc = "wait" /\ ~first_run
    /\ Cardinality({ k \in 1..Len(sink) : sink[k].note = STARTED }) = 1
    /\ Len(sink) > 3

\* two hydration reminders handed to the sink are at least 60 minutes apart
HydrationSpaced ==
    \A i, j \in 1..Len(sink) :
        (i < j /\ sink[i].note = HYDRATION /\ sink[j].note = HYDRATION)
            => sink[j].at - sink[i].at >= 60 * 60

\* the hydration reminder does not fire before 60 minutes have passed since it
\* last fired, and the recorded time changes only where it fires, to now
HydrationDebounced ==
    /\ (RuleStep /\ HYDRATION \in Range(notifications') /\ last_hydration_reminder # None)
           => now' - last_hydration_reminder >= 60 * 60
    /\ last_hydration_reminder' # last_hydration_reminder
           => (RuleStep /\ HYDRATION \in Range(notifications')
               /\ last_hydration_reminder' = now')
    /\ HydrationSpaced'

\* C5 as stated: the hydration reminder fires on the first tick ever; once
\* fired it does not fire again before 60 minutes have passed; its recorded
\* time changes only on a tick where it fires, to that tick's now.
C5_HydrationFirstTick ==
    [][ /\ (TickStep /\ ticks = 0)
            => (RuleStep /\ HYDRATION \in Range(notifications'))
        /\ HydrationDebounced ]_vars

\* C5 amended: the hydration reminder fires on the first rule-evaluating tick
\* (the first tick after the first one whose fetch yields sessions), not on
\* the first tick; once fired it does not fire again before 60 minutes have
\* passed; its recorded time changes only on a tick where it fires, to that
\* tick's now.
C5_HydrationFirstRuleTick ==
    [][ /\ (RuleStep /\ last_day = None)
            => (HYDRATION \in Range(notifications') /\ last_hydration_reminder' = now')
        /\ (TickStep /\ ticks = 0) => ~RuleStep
        /\ HydrationDebounced ]_vars

\* the reminder fired, was held back on a tick inside the hour, or fired
\* again on a later one: here it has reached the sink twice
C5_Witness ==
    /\ Cardinality({ k \in 1..Len(sink) : sink[k].note = HYDRATION }) = 2
    /\ last_hydration_reminder = now
    /\ pc = "wait"

\* C6: "Great Job!" reaches the sink at most once per calendar day, and only
\* on a tick on which none of the five alerts fired.
C6_PraiseOncePerDay ==
    /\ \A i \in 1..Len(sink) :
           sink[i].note = GREAT_JOB =>
               \A j \in (i + 1)..Len(sink) :
                   sink[j].note = GREAT_JOB => Date(sink[i].at) # Date(sink[j].at)
    /\ \A i \in 1..Len(sink) :
           sink[i].note = GREAT_JOB => Range(NotesOf(sink, sink[i].tick)) \cap Alerts = {}
    /\ GREAT_JOB \in Range(notifications) => Range(notifications) \cap Alerts = {}

\* praised on one day, not again on a later tick of that day with the same
\* healthy history
C6_Witness ==
    /\ ticks = 3 /\ pc = "wait"
    /\ commit_times = HealthyLog
    /\ Date(now) = last_day
    /\ positive_reinforcement_given
    /\ \E k \in 1..Len(sink) : sink[k].note = GREAT_JOB /\ sink[k].tick = 2
    /\ GREAT_JOB \notin Range(NotesOf(sink, 3))
    /\ NotesOf(sink, 3) = notifications

\* the tick restarted the day: the accumulator holds this tick's delta alone
\* and the flag is true only if the praise fired on this very tick
ResetSeen ==
    /\ daily_coding_minutes' = DailyDelta(sessions', Date(now'))
    /\ positive_reinforcement_given' => (RuleStep /\ GREAT_JOB \in Range(notifications'))
\* the tick reset neither
NoReset ==
    /\ daily_coding_minutes' >= daily_coding_minutes
    /\ positive_reinforcement_given => positive_reinforcement_given'

\* now is, for the first time, on a later date than the recorded day
DayTurned ==
    /\ last_day # None
    /\ Date(now') > last_day
    /\ Date(now) <= last_day

\* C7 as stated: the first tick whose now is on a later date than the recorded
\* day resets the daily accumulator and positive_reinforcement_given,
\* whatever the fetched history; no other tick resets either.
C7_ResetOnDayTurn ==
    [][ TickStep => IF DayTurned THEN ResetSeen ELSE NoReset ]_vars

\* C7 amended: a rule-evaluating tick (not the first tick, history not empty)
\* whose now is on another date than the recorded day resets the daily
\* accumulator to 0 before adding its delta, resets
\* positive_reinforcement_given and records the day; a tick with an empty
\* history resets and records nothing, so the reset waits for the next
\* rule-evaluating tick; no other step resets either.
C7_ResetOnRuleTick ==
    [][ /\ TickStep =>
             IF RuleStep /\ last_day # Date(now')
             THEN ResetSeen /\ last_day' = Date(now')
             ELSE NoReset /\ last_day' = last_day
        /\ ~TickStep =>
             UNCHANGED << daily_coding_minutes, positive_reinforcement_given, last_day >> ]_vars

\* minutes and praise of Tuesday, then a rule tick on Wednesday: the
\* accumulator is back to this tick's delta (0) and the praise fired again
C7_Witness ==
    /\ last_day = 2 /\ pc = "emit"
    /\ daily_coding_minutes = 0
    /\ positive_reinforcement_given /\ GREAT_JOB \in Range(notifications)
    /\ \E k \in 1..Len(sink) : sink[k].note = GREAT_JOB /\ Date(sink[k].at) = 1

\* what the tick the loop is in has to hand to the sink, by its branch
ExpectedNotes ==
    IF ticks = 1 THEN << STARTED >>
    ELSE IF sessions = << >> THEN << NO_DATA >>
    ELSE notifications

\* the fixed rule order of the claim
RuleRank(n) ==
    CASE n = LONG_ALERT -> 1
      [] n = BREAK_ALERT -> 2
      [] n = NIGHT_ALERT -> 3
      [] n = DAILY_ALERT -> 4
      [] n = WEEKLY_ALERT -> 5
      [] n = HYDRATION -> 6
      [] n = ACTIVITY -> 7
      [] n = ERGONOMICS -> 8
      [] n = MOOD -> 9
      [] n = GREAT_JOB -> 10
      [] OTHER -> 0

\* C8: within a tick the notifications reach the sink in the fixed rule
\* order (each call of the sink is of the same tick as the call before it and
\* of a later rule, or of a later tick), and every notification of a tick has
\* reached the sink before the next tick's fetch (the loop is back at line
\* 119 or in the wait).
C8_OrderedNoInterleave ==
    /\ \A i \in 1..(Len(sink) - 1) :
           /\ sink[i].tick <= sink[i + 1].tick
           /\ sink[i].tick = sink[i + 1].tick
                => RuleRank(sink[i].note) < RuleRank(sink[i + 1].note)
    /\ TickEmitted => NotesOf(sink, ticks) = ExpectedNotes

\* a tick that handed alerts and reminders to the sink, back at the fetch
C8_Witness ==
    /\ pc = "tick" /\ ticks = 3
    /\ NotesOf(sink, 3) = << LONG_ALERT, BREAK_ALERT, NIGHT_ALERT, WEEKLY_ALERT,
                             HYDRATION, ACTIVITY, ERGONOMICS, MOOD >>

RECURSIVE Flatten(_)
Flatten(ss) == IF ss = << >> THEN << >> ELSE Head(ss) \o Flatten(Tail(ss))

Count(seq, v) == Cardinality({ i \in 1..Len(seq) : seq[i] = v })

\* C10: for a non-empty commit list (any order, repeats allowed) the sessions
\* are non-empty and their concatenation is the list in ascending order: the
\* same instants as often as in the input; sessions follow each other by
\* start time and do not overlap.
C10_Partition ==
    (pc = "analyzed" /\ commit_times # << >>) =>
        LET flat == Flatten(sessions)
        IN  /\ sessions # << >>
            /\ \A k \in 1..Len(sessions) : sessions[k] # << >>
            /\ Len(flat) = Len(commit_times)
            /\ \A v \in SegInstants : Count(flat, v) = Count(commit_times, v)
            /\ \A i \in 1..(Len(flat) - 1) : flat[i] <= flat[i + 1]
            /\ \A k \in 1..(Len(sessions) - 1) :
                   /\ sessions[k][1] < sessions[k + 1][1]
                   /\ sessions[k][Len(sessions[k])] < sessions[k + 1][1]

\* an unsorted list with a repeated instant, cut into two sessions
C10_Witness ==
    /\ pc = "analyzed"
    /\ Len(commit_times) = 4 /\ Len(sessions) = 2
    /\ commit_times[1] > commit_times[2]
    /\ commit_times[3] = commit_times[1]

\* the sessions an instant occurs in
SessionsWith(ss, v) == { k \in 1..Len(ss) : v \in Range(ss[k]) }

\* C11: a session boundary lies between two consecutive sorted instants if
\* and only if their gap is strictly greater than MIN_BREAK_MINUTES: inside a
\* session every consecutive gap is at most MIN_BREAK_MINUTES (a gap of
\* exactly MIN_BREAK_MINUTES does not split), every later session starts more
\* than MIN_BREAK_MINUTES after the last instant of the one before, and the
\* occurrences of one instant are all in one session.
C11_BoundaryIffGapOver ==
    (pc = "analyzed" /\ commit_times # << >>) =>
        /\ \A k \in 1..Len(sessions) : \A i \in 1..(Len(sessions[k]) - 1) :
               sessions[k][i + 1] - sessions[k][i] <= MIN_BREAK_MINUTES * 60
        /\ \A k \in 1..(Len(sessions) - 1) :
               sessions[k + 1][1] - sessions[k][Len(sessions[k])] > MIN_BREAK_MINUTES * 60
        /\ \A v \in Range(commit_times) : Cardinality(SessionsWith(sessions, v)) = 1

\* gaps of exactly 5 minutes, of none, and of 5 minutes and a second: the
\* first two stay in one session, the third opens the next
C11_Witness ==
    /\ pc = "analyzed"
    /\ sessions = << << At(1, 9, 0, 0), At(1, 9, 5, 0), At(1, 9, 5, 0) >>,
                     << At(1, 9, 10, 1) >> >>
    /\ commit_times[1] = At(1, 9, 10, 1)

\* the tick before the one that starts was a rule-evaluating tick whose
\* notifications have all reached the sink
AfterRuleTick == pc = "tick" /\ ticks >= 2 /\ sessions # << >>

\* C12: when the fetched history is the same on two consecutive
\* rule-evaluating ticks, no alert (long session, no-break, late-night, daily
\* overwork, weekly overwork) emitted on the first is emitted again on the
\* second.
C12_AlertsDebounced ==
    [][ (AfterRuleTick /\ RuleStep /\ commit_times' = commit_times)
            => Range(notifications') \cap Range(notifications) \cap Alerts = {} ]_vars

\* the step is a rule tick whose now is on another day (week) than the stored
DayDiffers == RuleStep /\ Date(now') # last_day
WeekDiffers == RuleStep /\ IsoWeekNumber(now') # last_week

\* C13: from one tick to the next the daily (weekly) accumulator does not
\* decrease while the stored day (week) identifier stays the same, and it is
\* set back to zero only on a tick whose now has another day (week) identifier
\* than the stored one; the stored identifier changes on such a tick only.
C13_MonotoneInPeriod ==
    [][ /\ last_day' = last_day => daily_coding_minutes' >= daily_coding_minutes
        /\ last_week' = last_week => weekly_coding_minutes' >= weekly_coding_minutes
        /\ daily_coding_minutes' < daily_coding_minutes => DayDiffers
        /\ weekly_coding_minutes' < weekly_coding_minutes => WeekDiffers
        /\ last_day' # last_day => DayDiffers
        /\ last_week' # last_week => WeekDiffers ]_vars

\* Tuesday's tick left 300 and 1201 minutes; Wednesday's tick, in the same
\* week, restarted the day and went on adding to the week
C13_Witness ==
    /\ ticks = 3 /\ pc = "wait"
    /\ last_day = 2 /\ last_week = 1
    /\ daily_coding_minutes = 0
    /\ weekly_coding_minutes = 2402

\* the ISO week of an instant: ISO year and week number
IsoWeek(t) == << IsoYear(t), IsoWeekNumber(t) >>

\* the sum of the floored minutes of the sessions that start in the ISO week
\* of the instant t
RECURSIVE IsoWeeklyDelta(_, _)
IsoWeeklyDelta(ss, t) ==
    IF ss = << >> THEN 0
    ELSE (IF IsoWeek(Head(ss)[1]) = IsoWeek(t) THEN DurationMinutes(Head(ss)) ELSE 0)
         + IsoWeeklyDelta(Tail(ss), t)

\* the ISO week the week identifier was stored in: last_day and last_week
\* are stored by the same ticks, from the same now
StoredIsoWeek == IsoWeek(At(last_day, 0, 0, 0))

\* C14: a rule tick adds to the weekly accumulator the floored minutes of
\* exactly the sessions that start in the ISO week (year and week number) of
\* now, nothing for a session of the same week number of another ISO year,
\* and it restarts the accumulator whenever the ISO week of now (year and
\* week number) is not the stored one.
C14_WeeklyDeltaOfIsoWeek ==
    [][ RuleStep =>
          LET kept == IF last_day = None \/ IsoWeek(now') # StoredIsoWeek
                      THEN 0 ELSE weekly_coding_minutes
          IN  weekly_coding_minutes' = kept + IsoWeeklyDelta(sessions', now') ]_vars

\* the log goes from 08:00 to 11:30 of one day
SpansMorning(log) ==
    /\ log # << >>
    /\ \E d \in 0..1 :
           /\ At(d, 8, 0, 0) \in Range(log) /\ At(d, 11, 30, 0) \in Range(log)
           /\ \A v \in Range(log) : At(d, 8, 0, 0) <= v /\ v <= At(d, 11, 30, 0)

\* no instant of the log but the last is followed by a gap of more than secs
GapsAtMost(log, secs) ==
    \A v \in Range(log) :
        \/ \A w \in Range(log) : w <= v
        \/ \E w \in Range(log) : v < w /\ w <= v + secs

\* the loop is in a rule tick, or has just left one: sessions and
\* notifications are those of the history in commit_times
InRuleTick == ticks >= 2 /\ sessions # << >>

MorningUnder59 == SpansMorning(commit_times) /\ GapsAtMost(commit_times, 59 * 60)
MorningUnderBreak ==
    SpansMorning(commit_times) /\ GapsAtMost(commit_times, MIN_BREAK_MINUTES * 60)

\* C15 as stated: a history from 08:00 to 11:30 with no gap over 59 minutes
\* is one session, counted as a no-break session and not as a long session.
C15_MorningOneSessionNotLong ==
    (InRuleTick /\ MorningUnder59) =>
        /\ Len(sessions) = 1
        /\ BREAK_ALERT \in Range(notifications)
        /\ LONG_ALERT \notin Range(notifications)

\* C15 amended: a history from 08:00 to 11:30 with no gap over
\* MIN_BREAK_MINUTES (5 minutes) is one session; it is counted as a no-break
\* session and, its span of 3.5 hours being over LONG_SESSION_HOURS, as a
\* long session too.
C15_MorningOneSessionLong ==
    (InRuleTick /\ MorningUnderBreak) =>
        /\ Len(sessions) = 1
        /\ Len(no_break_sessions(sessions)) = 1
        /\ Len(long_sessions(sessions)) = 1
        /\ BREAK_ALERT \in Range(notifications)
        /\ LONG_ALERT \in Range(notifications)

\* a morning of commits 2.5 minutes apart with one gap of exactly 5 minutes,
\* evaluated by a rule tick: both alerts are out
C15_Witness ==
    /\ pc = "wait" /\ ticks = 2
    /\ commit_times = Without(Grid(At(1, 8, 0, 0), At(1, 11, 30, 0), 150), 10, 1)
    /\ Len(sessions) = 1
    /\ { LONG_ALERT, BREAK_ALERT } \subseteq Range(NotesOf(sink, 2))

\* the hours of the night: 22 and 23, and 0 to 5
NightHours == { 22, 23 } \cup 0..5

\* the history holds the instant hh:mm of some day
Holds(log, hh, mm) == \E i \in 1..Len(log) : \E d \in 0..1 : log[i] = At(d, hh, mm, 0)

NightAlertOut == NIGHT_ALERT \in Range(notifications)

\* C16: a commit is late-night if and only if its hour is 22 or more, or
\* less than 6: 22:00, 23:30 and 05:59 are, 06:00, 07:00 and 21:59 are not;
\* the late-night alert fires on a rule tick exactly when some instant of the
\* fetched history is late-night.
C16_LateNightWrapAround ==
    InRuleTick =>
        /\ NightAlertOut <=>
               \E i \in 1..Len(commit_times) :
                   (commit_times[i] % SecondsPerDay) \div 3600 \in NightHours
        /\ (Holds(commit_times, 22, 0) \/ Holds(commit_times, 23, 30)
               \/ Holds(commit_times, 5, 59)) => NightAlertOut
        /\ (Len(commit_times) = 1 /\ ( Holds(commit_times, 6, 0) \/ Holds(commit_times, 7, 0)
                                       \/ Holds(commit_times, 21, 59) )) => ~NightAlertOut

\* a history of 07:00 and 23:30 has brought the alert to the sink
C16_Witness ==
    /\ pc = "wait" /\ ticks = 2
    /\ commit_times = << At(1, 7, 0, 0), At(0, 23, 30, 0) >>
    /\ NIGHT_ALERT \in Range(NotesOf(sink, 2))

\* the accumulator holds n times the delta before the step and n + 1 times
\* after it, for the n ticks since it was restarted
OneMoreDelta(before, after, delta) ==
    \E n \in 1..ticks : before = n * delta /\ after = (n + 1) * delta

\* C17: every rule tick adds the full delta of the tick: the tick that
\* restarts the day leaves the daily accumulator at once the sum of the
\* floored minutes of the sessions that started today, and each next rule tick
\* of that day on the same history leaves it at one more time that sum (n
\* times after n ticks); the same for the weekly accumulator, the ISO week of
\* now and the sessions that started in it.
C17_FullDeltaEveryTick ==
    [][ RuleStep =>
          LET day == DailyDelta(sessions', Date(now'))
              week == IsoWeeklyDelta(sessions', now')
          IN  /\ (last_day = None \/ Date(now') # last_day)
                     => daily_coding_minutes' = day
              /\ (AfterRuleTick /\ commit_times' = commit_times /\ Date(now') = last_day)
                     => OneMoreDelta(daily_coding_minutes, daily_coding_minutes', day)
              /\ (last_day = None \/ IsoWeek(now') # StoredIsoWeek)
                     => weekly_coding_minutes' = week
              /\ (AfterRuleTick /\ commit_times' = commit_times
                    /\ last_day # None /\ IsoWeek(now') = StoredIsoWeek)
                     => OneMoreDelta(weekly_coding_minutes, weekly_coding_minutes', week) ]_vars

\* C18: the "Work Limit Warning" reaches the sink on a tick only if the
\* sessions of the history fetched on that tick that started on the day of
\* now last more than 480 minutes in all, however many ticks came before on
\* that day.
C18_DailyAlertOnlyOver8h ==
    (InRuleTick /\ DAILY_ALERT \in Range(NotesOf(sink, ticks)))
        => DailyDelta(sessions, Date(now)) > 8 * 60

\* the sessions that span more than 2 hours, whatever their gaps
Over2Hours(s) == s[Len(s)] - s[1] > 2 * 3600
Over3Hours(s) == s[Len(s)] - s[1] > LONG_SESSION_HOURS * 3600

\* C19: in every session analyze_sessions returns every gap is under 60
\* minutes, so the no-break sessions are exactly the sessions of more than 2
\* hours, every session of more than 3 hours is one of them, and a tick that
\* collects the long-session alert collects the no-break alert too.
C19_LongImpliesNoBreak ==
    InRuleTick =>
        /\ \A k \in 1..Len(sessions) : \A i \in 1..(Len(sessions[k]) - 1) :
               sessions[k][i + 1] - sessions[k][i] < 60 * 60
        /\ no_break_sessions(sessions) = SelectSeq(sessions, Over2Hours)
        /\ Range(SelectSeq(sessions, Over3Hours)) \subseteq Range(no_break_sessions(sessions))
        /\ LONG_ALERT \in Range(notifications) <=> SelectSeq(sessions, Over3Hours) # << >>
        /\ BREAK_ALERT \in Range(notifications) <=> SelectSeq(sessions, Over2Hours) # << >>
        /\ LONG_ALERT \in Range(notifications) => BREAK_ALERT \in Range(notifications)

\* two sessions of 15 and 5 hours: both alerts have reached the sink
C19_Witness ==
    /\ pc = "wait" /\ ticks = 2
    /\ commit_times = BusyLog
    /\ Len(long_sessions(sessions)) = 2
    /\ SubSeq(NotesOf(sink, 2), 1, 2) = << LONG_ALERT, BREAK_ALERT >>

\* C20: in GUI mode, however the two threads interleave, no call of the sink
\* gui_show_popup is made once on_close has set the stop event and destroyed
\* the window (the record of a call holds whether on_close had run).
C20_NoPopupAfterClose ==
    \A k \in 1..Len(sink) : ~sink[k].stopped

====
